---- MODULE Spec2Model ----
(***************************************************************************)
(* Trade analysis of eth_defi: the router classifier                       *)
(* (uniswap_v3/constant.py), the swap dispatcher (swap/analysis.py) and    *)
(* the Universal Router analysis (uniswap_universal/analysis.py).          *)
(*                                                                         *)
(* One behaviour is one transaction: Init draws the entry point and its    *)
(* arguments, every action is one whole call of a function, and a call may *)
(* be repeated on the same arguments.  The chain is immutable: the first   *)
(* answer a collaborator gives to a question is kept in `answers` and      *)
(* given again to every later call.  Python index i is TLA+ index i + 1.   *)
(***************************************************************************)
EXTENDS Integers, Sequences, FiniteSets, TLC

VARIABLES
    dex_router,        \* uniswap_v3/constant.py: the module-level v3 table
    v2_router,         \* uniswap_v2/constant.py: the v2 table
    universal_router,  \* uniswap_universal/constant.py: the universal table
    entry,             \* the function the caller invokes
    args,              \* its arguments
    answers,           \* the collaborators' answers given so far
    outcome,           \* what the first call returned or raised
    again,             \* what the latest repeated call returned or raised
    v3_call            \* the arguments of the latest get_v3_by_event call

vars == <<dex_router, v2_router, universal_router, entry, args, answers,
          outcome, again, v3_call>>

-----------------------------------------------------------------------------
(* Bounds *)

MaxOps == 2
MaxEvents == 2

-----------------------------------------------------------------------------
(* Values *)

None == "None"
NoOutcome == [kind |-> "none"]
NoCall == [kind |-> "none"]

ODOS_ROUTER == "0x19ceead7105607cd444f5ad10dd51356436095a1"
V2_ROUTER == "0x4752ba5dbc23f44d87826276bf6fd6b1c372ad24"
UNIVERSAL_ROUTER == "0x3fc91a3afd70395cd496c647d5a6cc9d4b2b7fad"
Addresses == {ODOS_ROUTER, V2_ROUTER, UNIVERSAL_ROUTER}
Chains == {"base", "ethereum"}
TX_HASH == "0xe3e1a99274369608be9453084435f9d67464088c4cb10537ea952b0016a26245"

WETH == "0x4200000000000000000000000000000000000006"
USDC == "0x833589fcd6edb6e08f4c7c32d4f71b54bda02913"
DAI == "0x50c5725949a6f0c72e6c4a641f24049a917db0cb"
POOL == "0xd0b53d9277642d899df5c87a3966a349a798f224"

\* dex_router as the module defines it
InitialDexRouter ==
    [base |-> << [chain |-> "base", address |-> ODOS_ROUTER,
                  name |-> "Odos:Router V2"] >>]

Raise(exception, message) == [kind |-> exception, message |-> message]

TradeFail(gas_used, effective_gas_price, revert_reason) ==
    [kind |-> "TradeFail", gas_used |-> gas_used,
     effective_gas_price |-> effective_gas_price,
     revert_reason |-> revert_reason]

TradeSuccess(gas_used, effective_gas_price, path, amount_in, amount_out_min, amount_out, price, amount_in_decimals, amount_out_decimals, token0, token1, lp_fee_paid) ==
    [kind |-> "TradeSuccess", gas_used |-> gas_used,
     effective_gas_price |-> effective_gas_price, path |-> path,
     amount_in |-> amount_in, amount_out_min |-> amount_out_min,
     amount_out |-> amount_out, price |-> price,
     amount_in_decimals |-> amount_in_decimals,
     amount_out_decimals |-> amount_out_decimals,
     token0 |-> token0, token1 |-> token1, lp_fee_paid |-> lp_fee_paid]

-----------------------------------------------------------------------------
(* The inputs a caller can pass and the answers the chain can give *)

SeqsUpTo(S, n) == UNION {[1..k -> S] : k \in 0..n}

\* tx_receipt: status, gasUsed, and effectiveGasPrice where the node gives it
Receipts ==
    [status : {0, 1, 2}, gasUsed : {21000, 50000}]
        \cup [status : {0, 1, 2}, gasUsed : {21000, 50000},
              effectiveGasPrice : {7}]

\* the decoded commands of a Universal Router execute() call, each a pair
\* (function, parameters) with the parameter names of the router's ABI
OpChoices ==
    { <<[fn_name |-> "V3_SWAP_EXACT_IN"],
        [amountIn |-> 2, amountOutMin |-> 0, path |-> <<WETH, 500, USDC>>]>>,
      <<[fn_name |-> "V3_SWAP_EXACT_IN"],
        [amountIn |-> 2, amountOutMin |-> 5,
         path |-> <<USDC, 500, WETH, 3000, DAI>>]>>,
      <<[fn_name |-> "V3_SWAP_EXACT_OUT"],
        [amountOut |-> 1, amountInMax |-> 9, path |-> <<USDC, 500, WETH>>]>>,
      <<[fn_name |-> "V2_SWAP_EXACT_IN"],
        [amountIn |-> 2, amountOutMin |-> 0, path |-> <<WETH, USDC>>]>>,
      <<[fn_name |-> "V2_SWAP_EXACT_OUT"],
        [amountOut |-> 1, amountInMax |-> 9, path |-> <<WETH, USDC>>]>>,
      <<[fn_name |-> "WRAP_ETH"],
        [recipient |-> UNIVERSAL_ROUTER, amountMin |-> 2]>>,
      <<[fn_name |-> "PERMIT2_PERMIT"],
        [struct |-> "PermitSingle", data |-> "signature"]>> }

OpLists == SeqsUpTo(OpChoices, MaxOps)

\* codec.decode.function_input: (function, {"inputs": commands})
function_input(input) == <<"execute", [inputs |-> input]>>

SwapEvent(amount0, amount1) ==
    [event |-> "Swap", address |-> POOL,
     args |-> [amount0 |-> amount0, amount1 |-> amount1, tick |-> -200311]]

TransferEvent ==
    [event |-> "Transfer", address |-> WETH,
     args |-> [from |-> UNIVERSAL_ROUTER, to |-> POOL, value |-> 2]]

\* every sign of amount0 with every sign of amount1
SwapEvents == {SwapEvent(a0, a1) : a0 \in {-2, 0, 2}, a1 \in {-1, 0, 1}}

\* get_tx_events: the ordered (event, args) pairs of the transaction
EventLists ==
    SeqsUpTo({<<e, e.args>> : e \in SwapEvents \cup {TransferEvent}}, MaxEvents)

\* fetch_transaction_revert_reason: the reason, or none
RevertReasons == {None, "execution reverted: Too little received"}

\* fetch_pool_details: the pool's tokens and its fee rate in millionths
PoolDetails(address) ==
    [address : {address}, token0 : {WETH}, token1 : {USDC},
     fee_ppm : {500, 3000}]

\* fetch_erc20_details(...).decimals
TokenDecimals == {6, 18}

\* pool.convert_price_to_human(tick): a function of the pool and the tick
convert_price_to_human(pool, tick) == [pool |-> pool.address, tick |-> tick]

\* a collaborator asked question q: the answer it gave before, or any of S
Ask(ans, q, S) ==
    IF q \in DOMAIN ans
    THEN {<<ans[q], ans>>}
    ELSE {<<a, [x \in DOMAIN ans \cup {q} |-> IF x = q THEN a ELSE ans[x]]>>
            : a \in S}

NoAnswers == [q \in {} |-> None]

-----------------------------------------------------------------------------
(* uniswap_v3/constant.py and its siblings *)

Return(value) == [kind |-> "return", value |-> value]

\* dex_router[chain] raises KeyError for a chain the table has no key for
contains_v3_router(table, chain, address) ==
    IF chain \notin DOMAIN table
    THEN Raise("KeyError", chain)
    ELSE Return(\E i \in 1..Len(table[chain]) :
                    table[chain][i].address = address)

\* the siblings are not in the sources here: the table lookup the
\* specification describes, over a table that has every chain
contains_v2_router(table, chain, address) ==
    Return(address \in table[chain])

contains_universal_router(table, chain, address) ==
    Return(address \in table[chain])

\* the tables the siblings may hold
SiblingTables(addresses) == [Chains -> SUBSET addresses]

-----------------------------------------------------------------------------
(* swap/analysis.py *)

\* uniswap_v2/analysis.py and uniswap_v3/analysis.py are not in the sources
\* here: a reverted transaction gives a TradeFail with the receipt's gas
\* fields, any other is decoded by the protocol's own rules
PerProtocolOutcomes(family, tx_receipt) ==
    IF tx_receipt.status # 1
    THEN {TradeFail(tx_receipt.gasUsed,
                    IF "effectiveGasPrice" \in DOMAIN tx_receipt
                    THEN tx_receipt.effectiveGasPrice ELSE 0,
                    reason) : reason \in RevertReasons}
    ELSE {[kind |-> "TradeSuccess", family |-> family],
          Raise("AssertionError", "No swap events detected")}

\* analyse_trade_by_receipt(web3, chain, tx, tx_hash, tx_receipt): the set of
\* (outcome, answers) the call can end with
swap_analyse_trade_by_receipt(v3_table, v2_table, universal_table, a, ans) ==
    LET router_addr == a.tx.to
        is_v2 == contains_v2_router(v2_table, a.chain, router_addr)
        is_v3 == contains_v3_router(v3_table, a.chain, router_addr)
        is_universal ==
            contains_universal_router(universal_table, a.chain, router_addr)
    IN  IF is_v2.value
        THEN Ask(ans, <<"v2_analyse_trade_by_receipt", a.tx_hash>>,
                 PerProtocolOutcomes("v2", a.tx_receipt))
        ELSE IF is_v3.kind # "return"
        THEN {<<is_v3, ans>>}
        ELSE IF is_v3.value
        THEN Ask(ans, <<"v3_analyse_trade_by_receipt", a.tx_hash>>,
                 PerProtocolOutcomes("v3", a.tx_receipt))
        ELSE IF is_universal.value
        THEN {<<Raise("NotImplementedError",
                      "Universal router not implemented"), ans>>}
        ELSE {<<Raise("ValueError", "Unknown router"), ans>>}

-----------------------------------------------------------------------------
(* uniswap_universal/analysis.py *)

Abs(x) == IF x < 0 THEN -x ELSE x

Reverse(seq) == [i \in 1..Len(seq) |-> seq[Len(seq) + 1 - i]]

\* tx_receipt.get("effectiveGasPrice", 0)
effective_gas_price_of(tx_receipt) ==
    IF "effectiveGasPrice" \in DOMAIN tx_receipt
    THEN tx_receipt.effectiveGasPrice
    ELSE 0

\* the test as `status == 0`: a receipt of status 2 counts as a success
is_reverted_status_zero(tx_receipt) == tx_receipt.status = 0

\* if tx_receipt["status"] != 1
is_reverted(tx_receipt) == tx_receipt.status # 1

is_v3_swap(x) == x[1].fn_name \in {"V3_SWAP_EXACT_IN", "V3_SWAP_EXACT_OUT"}

\* the v2 filter without V2_SWAP_EXACT_OUT
is_v2_swap_exact_in_only(x) == x[1].fn_name \in {"V2_SWAP_EXACT_IN"}

is_v2_swap(x) == x[1].fn_name \in {"V2_SWAP_EXACT_IN", "V2_SWAP_EXACT_OUT"}

\* if len(v3_swap_ops) == 0 and len(v2_swap_ops) == 0
no_swap_ops(v3_swap_ops, v2_swap_ops) ==
    Len(v3_swap_ops) = 0 /\ Len(v2_swap_ops) = 0

\* the count taken per family: one v2 and one v3 swap pass
multiple_swap_ops_per_family(v3_swap_ops, v2_swap_ops) ==
    Len(v3_swap_ops) > 1 \/ Len(v2_swap_ops) > 1

\* if len(v3_swap_ops) + len(v2_swap_ops) > 1
multiple_swap_ops(v3_swap_ops, v2_swap_ops) ==
    Len(v3_swap_ops) + Len(v2_swap_ops) > 1

\* codec.decode.v3_path: the tokens and fees of the encoded path in order,
\* reversed for an exact-out swap, whose path is encoded output first
v3_path(fn_name, path) ==
    IF fn_name = "V3_SWAP_EXACT_OUT" THEN Reverse(path) ELSE path

\* list(filter(lambda tuple_e: tuple_e[0]["event"] == "Swap", events))
swap_events(events) == SelectSeq(events, LAMBDA tuple_e : tuple_e[1].event = "Swap")

\* the sign test with >= and <=: a zero amount passes
supported_swap_type_nonstrict(amount0, amount1) ==
    (amount0 >= 0 /\ amount1 <= 0) \/ (amount0 <= 0 /\ amount1 >= 0)

\* (amount0 > 0 and amount1 < 0) or (amount0 < 0 and amount1 > 0)
supported_swap_type(amount0, amount1) ==
    (amount0 > 0 /\ amount1 < 0) \/ (amount0 < 0 /\ amount1 > 0)

\* amount_out = amount0 if amount0 < 0 else amount1
amount_out_of(amount0, amount1) == IF amount0 < 0 THEN amount0 ELSE amount1

\* the input picked by the test of the output line
amount_in_of_negative(amount0, amount1) ==
    IF amount0 < 0 THEN amount0 ELSE amount1

\* amount_in = amount0 if amount0 > 0 else amount1
amount_in_of(amount0, amount1) == IF amount0 > 0 THEN amount0 ELSE amount1

\* float(amount_in * pool.fee / 10 ** decimals), pool.fee being
\* fee_ppm / 10^6: the number mantissa * 10^exponent
lp_fee_paid_of(amount_in, pool, decimals) ==
    [mantissa |-> amount_in * pool.fee_ppm, exponent |-> -(6 + decimals)]

\* get_v3_by_event: the set of (outcome, answers) the call can end with
get_v3_by_event(effective_gas_price, gas_used, path, amount_out_min, event, ans) ==
    LET props == event.args
        amount0 == props.amount0
        amount1 == props.amount1
        tick == props.tick
        pool_address == event.address
        Built(pool, in_decimals, out_decimals) ==
            LET amount_out == amount_out_of(amount0, amount1)
                amount_in == amount_in_of(amount0, amount1)
            IN  IF ~(amount_out < 0)
                THEN Raise("AssertionError",
                           "amount out should be negative for uniswap v3")
                ELSE TradeSuccess(gas_used, effective_gas_price, path,
                        amount_in, amount_out_min, Abs(amount_out),
                        convert_price_to_human(pool, tick),
                        in_decimals, out_decimals, pool.token0, pool.token1,
                        lp_fee_paid_of(amount_in, pool, in_decimals))
    IN  UNION {
          IF ~supported_swap_type(amount0, amount1)
          THEN {<<Raise("AssertionError", "Unsupported swap type"), p[2]>>}
          ELSE UNION {
                 { <<Built(p[1], i[1], o[1]), o[2]>>
                     : o \in Ask(i[2], <<"fetch_erc20_details", path[Len(path)]>>,
                                 TokenDecimals) }
                 : i \in Ask(p[2], <<"fetch_erc20_details", path[1]>>,
                             TokenDecimals) }
          : p \in Ask(ans, <<"fetch_pool_details", pool_address>>,
                      PoolDetails(pool_address)) }

V3Call(effective_gas_price, gas_used, path, amount_out_min, event) ==
    [kind |-> "call", effective_gas_price |-> effective_gas_price,
     gas_used |-> gas_used, path |-> path,
     amount_out_min |-> amount_out_min, event |-> event]

\* analyse_trade_by_receipt(web3, tx, tx_hash, tx_receipt): the set of
\* (outcome, answers, get_v3_by_event call) the call can end with
universal_analyse_trade_by_receipt(a, ans) ==
    LET effective_gas_price == effective_gas_price_of(a.tx_receipt)
        gas_used == a.tx_receipt.gasUsed
        decoded_trx_input == function_input(a.tx.input)[2].inputs
        v3_swap_ops == SelectSeq(decoded_trx_input, is_v3_swap)
        v2_swap_ops == SelectSeq(decoded_trx_input, is_v2_swap)
        Fails(exception, message) == {<<Raise(exception, message), ans, NoCall>>}
        AfterEvents(fn_name, path, amount_out_min, events, ans1) ==
            IF ~(Len(events) > 0)
            THEN {<<Raise("AssertionError", "No swap events detected"), ans1, NoCall>>}
            ELSE IF Len(swap_events(events)) = 0
            THEN {<<Raise("IndexError", "list index out of range"), ans1, NoCall>>}
            ELSE LET last == swap_events(events)[Len(swap_events(events))]
                 IN  IF ~(Len(last) > 0)
                     THEN {<<Raise("AssertionError", "No swap events detected"),
                             ans1, NoCall>>}
                     ELSE { <<r[1], r[2], V3Call(effective_gas_price, gas_used,
                                                path, amount_out_min, last[1])>>
                            : r \in get_v3_by_event(effective_gas_price, gas_used,
                                       path, amount_out_min, last[1], ans1) }
    IN  IF is_reverted(a.tx_receipt)
        THEN { <<TradeFail(gas_used, effective_gas_price, r[1]), r[2], NoCall>>
               : r \in Ask(ans, <<"fetch_transaction_revert_reason", a.tx_hash>>,
                           RevertReasons) }
        ELSE IF no_swap_ops(v3_swap_ops, v2_swap_ops)
        THEN Fails("ValueError", "No swap operation detected in the transaction")
        ELSE IF multiple_swap_ops(v3_swap_ops, v2_swap_ops)
        THEN Fails("ValueError",
                   "Multiple swap operations detected in the transaction")
        ELSE IF Len(v2_swap_ops) = 1
        THEN Fails("NotImplementedError",
                   "Uniswap V2 trades are not supported yet")
        ELSE IF "path" \notin DOMAIN decoded_trx_input[1][2]
        THEN Fails("KeyError", "path")
        ELSE IF "amountOutMin" \notin DOMAIN decoded_trx_input[1][2]
        THEN Fails("KeyError", "amountOutMin")
        ELSE UNION {
               AfterEvents(v3_swap_ops[1][1].fn_name,
                           v3_path(v3_swap_ops[1][1].fn_name,
                                   decoded_trx_input[1][2].path),
                           decoded_trx_input[1][2].amountOutMin, e[1], e[2])
               : e \in Ask(ans, <<"get_tx_events", a.tx_hash>>, EventLists) }

-----------------------------------------------------------------------------
(* The calls *)

\* the paths codec.decode.v3_path can give
Paths == {<<WETH, 500, USDC>>, <<USDC, 500, WETH, 3000, DAI>>, <<WETH, 500, WETH>>}

InitCommon ==
    /\ dex_router = InitialDexRouter
    /\ answers = NoAnswers
    /\ outcome = NoOutcome
    /\ again = NoOutcome
    /\ v3_call = NoCall

NoSiblingTables ==
    /\ v2_router = [c \in Chains |-> {}]
    /\ universal_router = [c \in Chains |-> {}]

InitContains ==
    /\ entry = "contains_v3_router"
    /\ args \in [chain : Chains, address : Addresses]
    /\ NoSiblingTables

InitSwap ==
    /\ entry = "swap.analyse_trade_by_receipt"
    /\ args \in [chain : Chains, tx : [to : Addresses, input : {<<>>}],
                 tx_hash : {TX_HASH}, tx_receipt : Receipts]
    /\ v2_router \in SiblingTables({ODOS_ROUTER, V2_ROUTER})
    /\ universal_router \in SiblingTables({ODOS_ROUTER, UNIVERSAL_ROUTER})

InitUniversal ==
    /\ entry = "uniswap_universal.analyse_trade_by_receipt"
    /\ args \in [tx : [to : {UNIVERSAL_ROUTER}, input : OpLists],
                 tx_hash : {TX_HASH}, tx_receipt : Receipts]
    /\ NoSiblingTables

InitGetV3 ==
    /\ entry = "get_v3_by_event"
    /\ args \in [effective_gas_price : {0, 7}, gas_used : {21000, 50000},
                 path : Paths, amount_out_min : {0, 5}, event : SwapEvents]
    /\ NoSiblingTables

Init == InitCommon /\ (InitContains \/ InitSwap \/ InitUniversal \/ InitGetV3)

\* a call ends: its result is the first call's, or a repeated call's
Finish(result, ans, call) ==
    /\ IF outcome = NoOutcome
       THEN outcome' = result /\ again' = again
       ELSE again' = result /\ outcome' = outcome
    /\ answers' = ans
    /\ v3_call' = call

\* a dispatcher that adds the destination it met to the v3 table
ModuleState_registering ==
    /\ dex_router' =
           IF entry = "swap.analyse_trade_by_receipt"
           THEN [c \in DOMAIN dex_router \cup {args.chain} |->
                   LET known == IF c \in DOMAIN dex_router
                                THEN dex_router[c] ELSE <<>>
                       met == [chain |-> c, address |-> args.tx.to,
                               name |-> "seen"]
                   IN  IF c = args.chain
                          /\ \A i \in 1..Len(known) : known[i] # met
                       THEN Append(known, met) ELSE known]
           ELSE dex_router
    /\ UNCHANGED <<v2_router, universal_router, entry, args>>

\* no function assigns to the module-level tables or to its arguments
ModuleState == UNCHANGED <<dex_router, v2_router, universal_router, entry, args>>

ContainsV3Router ==
    /\ entry = "contains_v3_router"
    /\ Finish(contains_v3_router(dex_router, args.chain, args.address),
              answers, v3_call)
    /\ ModuleState

SwapAnalyse ==
    /\ entry = "swap.analyse_trade_by_receipt"
    /\ \E r \in swap_analyse_trade_by_receipt(dex_router, v2_router,
                    universal_router, args, answers) :
           Finish(r[1], r[2], v3_call)
    /\ ModuleState

UniversalAnalyse ==
    /\ entry = "uniswap_universal.analyse_trade_by_receipt"
    /\ \E r \in universal_analyse_trade_by_receipt(args, answers) :
           Finish(r[1], r[2], r[3])
    /\ ModuleState

GetV3ByEvent ==
    /\ entry = "get_v3_by_event"
    /\ \E r \in get_v3_by_event(args.effective_gas_price, args.gas_used,
                    args.path, args.amount_out_min, args.event, answers) :
           Finish(r[1], r[2],
                  V3Call(args.effective_gas_price, args.gas_used, args.path,
                         args.amount_out_min, args.event))
    /\ ModuleState

Next == ContainsV3Router \/ SwapAnalyse \/ UniversalAnalyse \/ GetV3ByEvent

Spec == Init /\ [][Next]_vars

-----------------------------------------------------------------------------
(* What the claims speak of *)

IsContains == entry = "contains_v3_router"
IsSwap == entry = "swap.analyse_trade_by_receipt"
IsUniversal == entry = "uniswap_universal.analyse_trade_by_receipt"
Called == outcome # NoOutcome

AskedRevertReason == <<"fetch_transaction_revert_reason", TX_HASH>>
AskedEvents == <<"get_tx_events", TX_HASH>>
AskedV2 == <<"v2_analyse_trade_by_receipt", TX_HASH>>
AskedV3 == <<"v3_analyse_trade_by_receipt", TX_HASH>>

\* the address is listed in the v3 table under the chain
InV3Table(chain, address) ==
    /\ chain \in DOMAIN InitialDexRouter
    /\ \E i \in 1..Len(InitialDexRouter[chain]) :
           InitialDexRouter[chain][i].address = address

\* the receipt's gas fields are those of the result
GasFieldsOf(result, tx_receipt) ==
    /\ result.gas_used = tx_receipt.gasUsed
    /\ "effectiveGasPrice" \in DOMAIN tx_receipt
           => result.effective_gas_price = tx_receipt.effectiveGasPrice
    /\ "effectiveGasPrice" \notin DOMAIN tx_receipt
           => result.effective_gas_price = 0

SwapKinds == {"V3_SWAP_EXACT_IN", "V3_SWAP_EXACT_OUT",
              "V2_SWAP_EXACT_IN", "V2_SWAP_EXACT_OUT"}
SwapPositions(ops) == {i \in 1..Len(ops) : ops[i][1].fn_name \in SwapKinds}
V3Positions(ops) ==
    {i \in 1..Len(ops) :
        ops[i][1].fn_name \in {"V3_SWAP_EXACT_IN", "V3_SWAP_EXACT_OUT"}}
V2Positions(ops) == SwapPositions(ops) \ V3Positions(ops)

NoSwapError ==
    Raise("ValueError", "No swap operation detected in the transaction")
MultipleSwapError ==
    Raise("ValueError", "Multiple swap operations detected in the transaction")
V2NotImplemented ==
    Raise("NotImplementedError", "Uniswap V2 trades are not supported yet")

-----------------------------------------------------------------------------
(* C1 *)

\* C1 as claimed: for a receipt whose status is not 1, the Universal Router
\* analysis and the swap dispatcher both return a TradeFail with the receipt's
\* gas fields, whatever the destination address is.
C1_AlwaysTradeFail ==
    ((IsUniversal \/ IsSwap) /\ Called /\ args.tx_receipt.status # 1)
        => /\ outcome.kind = "TradeFail"
           /\ GasFieldsOf(outcome, args.tx_receipt)

\* C1 as amended: for a receipt whose status is not 1, the Universal Router
\* analysis returns a TradeFail with the receipt's gas fields (0 for a missing
\* effectiveGasPrice) and the fetched reason, absent or not; the dispatcher
\* does so when the destination is in the v2 or the v3 table of the chain.
C1_TradeFailWhenAnalysed ==
    /\ (IsUniversal /\ Called /\ args.tx_receipt.status # 1)
           => /\ outcome.kind = "TradeFail"
              /\ GasFieldsOf(outcome, args.tx_receipt)
              /\ AskedRevertReason \in DOMAIN answers
              /\ outcome.revert_reason = answers[AskedRevertReason]
    /\ (IsSwap /\ Called /\ args.tx_receipt.status # 1
          /\ (\/ args.tx.to \in v2_router[args.chain]
              \/ InV3Table(args.chain, args.tx.to)))
           => /\ outcome.kind = "TradeFail"
              /\ GasFieldsOf(outcome, args.tx_receipt)

\* a receipt of status 2 without effectiveGasPrice, no reason fetched
C1_Witness ==
    /\ IsUniversal
    /\ args.tx_receipt.status = 2
    /\ "effectiveGasPrice" \notin DOMAIN args.tx_receipt
    /\ outcome.kind = "TradeFail"
    /\ outcome.revert_reason = None
    /\ outcome.effective_gas_price = 0

-----------------------------------------------------------------------------
(* C2 *)

\* C2: contains_v3_router returns true for every address in the chain's table
\* and returns false, raising nothing, for every other address, also on a
\* chain the table has no entry for.
C2_ClassifiesEveryAddress ==
    (IsContains /\ Called)
        => outcome = Return(InV3Table(args.chain, args.address))

-----------------------------------------------------------------------------
(* C3 *)

\* C3: the dispatcher delegates to the first family, in the order v2, v3,
\* universal, whose table lists tx['to']; an address only in the universal
\* table always fails with NotImplementedError and an address in no table
\* always fails with ValueError.
C3_DispatchOrder ==
    (IsSwap /\ Called)
        => LET to == args.tx.to
               inV2 == to \in v2_router[args.chain]
               inV3 == InV3Table(args.chain, to)
               inUniversal == to \in universal_router[args.chain]
           IN  /\ inV2 => /\ AskedV2 \in DOMAIN answers
                          /\ outcome = answers[AskedV2]
               /\ (~inV2 /\ inV3) => /\ AskedV3 \in DOMAIN answers
                                     /\ outcome = answers[AskedV3]
               /\ (~inV2 /\ ~inV3 /\ inUniversal)
                      => outcome = Raise("NotImplementedError",
                                         "Universal router not implemented")
               /\ (~inV2 /\ ~inV3 /\ ~inUniversal)
                      => outcome = Raise("ValueError", "Unknown router")

-----------------------------------------------------------------------------
(* C4 *)

\* C4: for a status 1 Universal Router transaction, no swap operation fails
\* with the 'no swap operation' error, two or more (any mix of v2 and v3)
\* fail with the 'multiple swap operations' error, and only exactly one swap
\* operation gets past the check; neither error case gives a TradeSuccess.
C4_ExactlyOneSwap ==
    (IsUniversal /\ Called /\ args.tx_receipt.status = 1)
        => LET n == Cardinality(SwapPositions(args.tx.input))
           IN  /\ n = 0 => outcome = NoSwapError
               /\ n >= 2 => outcome = MultipleSwapError
               /\ n = 1 => outcome \notin {NoSwapError, MultipleSwapError}
               /\ n # 1 => outcome.kind # "TradeSuccess"

\* one v2 and one v3 swap in the same transaction
C4_Witness ==
    /\ IsUniversal
    /\ args.tx_receipt.status = 1
    /\ Cardinality(V3Positions(args.tx.input)) = 1
    /\ Cardinality(V2Positions(args.tx.input)) = 1
    /\ outcome = MultipleSwapError

-----------------------------------------------------------------------------
(* C5 *)

\* C5: for the one v3 swap operation of a Universal Router transaction, at
\* whatever position of the operation list, the analysis does not fault on
\* the lookup of its parameters, and the TradeSuccess carries that operation's
\* route path and minimum-output amount.
C5_PathOfTheSwapOperation ==
    (IsUniversal /\ Called /\ args.tx_receipt.status = 1
       /\ Cardinality(SwapPositions(args.tx.input)) = 1
       /\ Cardinality(V3Positions(args.tx.input)) = 1)
        => LET i == CHOOSE i \in V3Positions(args.tx.input) : TRUE
               op == args.tx.input[i]
           IN  "amountOutMin" \in DOMAIN op[2]
                  => /\ outcome.kind # "KeyError"
                     /\ outcome.kind = "TradeSuccess"
                          => /\ outcome.path = v3_path(op[1].fn_name, op[2].path)
                             /\ outcome.amount_out_min = op[2].amountOutMin

-----------------------------------------------------------------------------
(* C6 *)

SwapIndexes(events) == {i \in 1..Len(events) : events[i][1].event = "Swap"}

LastIndex(indexes) == CHOOSE i \in indexes : \A j \in indexes : j <= i

\* C6: the event the result is built from is the last event named 'Swap' of
\* the transaction's events, whatever precedes or follows it; a transaction
\* with events but no 'Swap' event fails with the 'no swap events detected'
\* error, not with an index-out-of-range fault.
C6_LastSwapEventOrExplicitError ==
    (IsUniversal /\ Called /\ AskedEvents \in DOMAIN answers
       /\ Len(answers[AskedEvents]) > 0)
        => LET events == answers[AskedEvents]
           IN  IF SwapIndexes(events) = {}
               THEN outcome = Raise("AssertionError", "No swap events detected")
               ELSE /\ v3_call.kind = "call"
                    /\ v3_call.event = events[LastIndex(SwapIndexes(events))][1]

-----------------------------------------------------------------------------
(* C7 *)

\* C7: get_v3_by_event gives a TradeSuccess only when one of amount0, amount1
\* is strictly positive and the other strictly negative; every other pair of
\* signs fails with the 'unsupported swap type' error.
C7_OppositeSignsOnly ==
    (Called /\ v3_call.kind = "call")
        => LET amount0 == v3_call.event.args.amount0
               amount1 == v3_call.event.args.amount1
               opposite == \/ amount0 > 0 /\ amount1 < 0
                           \/ amount0 < 0 /\ amount1 > 0
           IN  /\ outcome.kind = "TradeSuccess" => opposite
               /\ ~opposite
                    => outcome = Raise("AssertionError", "Unsupported swap type")

\* both amounts positive, through the whole analysis and its repetition
C7_Witness ==
    /\ IsUniversal
    /\ again # NoOutcome
    /\ v3_call.kind = "call"
    /\ v3_call.event.args.amount0 > 0
    /\ v3_call.event.args.amount1 > 0
    /\ outcome = Raise("AssertionError", "Unsupported swap type")

-----------------------------------------------------------------------------
(* C8 *)

\* C8: a status 1 Universal Router transaction whose only swap operation is
\* of a v2 kind fails with NotImplementedError, asks for no events and builds
\* no TradeSuccess.
C8_V2NotImplemented ==
    (IsUniversal /\ Called /\ args.tx_receipt.status = 1
       /\ Cardinality(SwapPositions(args.tx.input)) = 1
       /\ Cardinality(V2Positions(args.tx.input)) = 1)
        => /\ outcome = V2NotImplemented
           /\ outcome \notin {NoSwapError, MultipleSwapError}
           /\ AskedEvents \notin DOMAIN answers
           /\ v3_call = NoCall

\* a V2_SWAP_EXACT_OUT after a non-swap operation
C8_Witness ==
    /\ IsUniversal
    /\ args.tx_receipt.status = 1
    /\ Len(args.tx.input) = 2
    /\ args.tx.input[1][1].fn_name = "WRAP_ETH"
    /\ args.tx.input[2][1].fn_name = "V2_SWAP_EXACT_OUT"
    /\ outcome = V2NotImplemented

-----------------------------------------------------------------------------
(* C9 *)

AskedPool(address) == <<"fetch_pool_details", address>>
AskedToken(token) == <<"fetch_erc20_details", token>>

\* C9: a TradeSuccess of get_v3_by_event carries the gas fields and the path
\* it was given, the strictly positive amount as input, the declared minimum
\* output, the absolute value of the negative amount as output, the decimals
\* of the first and the last path token, the pool's token0 and token1, and
\* the non-negative lp fee input_amount * pool_fee / 10^(input decimals).
C9_TradeSuccessFields ==
    (Called /\ v3_call.kind = "call" /\ outcome.kind = "TradeSuccess")
        => LET amount0 == v3_call.event.args.amount0
               amount1 == v3_call.event.args.amount1
               positive == IF amount0 > 0 THEN amount0 ELSE amount1
               negative == IF amount0 > 0 THEN amount1 ELSE amount0
               path == v3_call.path
               pool == answers[AskedPool(v3_call.event.address)]
               in_decimals == answers[AskedToken(path[1])]
               out_decimals == answers[AskedToken(path[Len(path)])]
           IN  /\ outcome.gas_used = v3_call.gas_used
               /\ outcome.effective_gas_price = v3_call.effective_gas_price
               /\ IsUniversal => GasFieldsOf(outcome, args.tx_receipt)
               /\ outcome.path = path
               /\ positive > 0 /\ outcome.amount_in = positive
               /\ outcome.amount_out_min = v3_call.amount_out_min
               /\ negative < 0 /\ outcome.amount_out = -negative
               /\ outcome.amount_out > 0
               /\ outcome.amount_in_decimals = in_decimals
               /\ outcome.amount_out_decimals = out_decimals
               /\ outcome.token0 = pool.token0
               /\ outcome.token1 = pool.token1
               /\ outcome.lp_fee_paid.mantissa >= 0
               /\ outcome.lp_fee_paid.mantissa = positive * pool.fee_ppm
               /\ outcome.lp_fee_paid.exponent = -(6 + in_decimals)

\* amount1 is the input, over a two-hop path whose ends differ in decimals
C9_Witness ==
    /\ IsUniversal
    /\ outcome.kind = "TradeSuccess"
    /\ v3_call.event.args.amount0 < 0
    /\ outcome.amount_in = 1
    /\ outcome.amount_out = 2
    /\ Len(outcome.path) = 5
    /\ outcome.amount_in_decimals = 6
    /\ outcome.amount_out_decimals = 18
    /\ outcome.lp_fee_paid = [mantissa |-> 3000, exponent |-> -12]

-----------------------------------------------------------------------------
(* C10 *)

====
